---- MODULE Spec2Model ----
(***************************************************************************)
(* Model of proptest's replay file protocol (src/test_runner/replay.rs)    *)
(* and of the Option strategy (src/option.rs).                             *)
(*                                                                         *)
(* A file is a sequence of bytes; a byte is written as a one-character     *)
(* string, except BadByte (a byte that is not valid UTF-8) and NonAscii    *)
(* (a valid multi-byte character).  A u32 is the pair <<hi, lo>> of its    *)
(* 16-bit halves, so that 2^32-1 and overflow past it are representable.   *)
(***************************************************************************)
EXTENDS Integers, Sequences, FiniteSets, TLC

VARIABLES
    file,      \* the bytes of the replay file
    self,      \* the Replay held in memory
    other,     \* the Replay merged into self
    status,    \* the result of the last parse_from
    hist,      \* the write operations performed on the file, in order
    op,        \* the last operation performed
    input,     \* the pieces an arbitrary input file was assembled from
    worker,    \* the worker process: "none", "idle", "writing" or "dead"
    wstep,     \* the step the worker is about to append
    launches,  \* number of workers started so far
    spc,       \* the supervisor's parse: "idle" or "reading"
    sbuf,      \* bytes the supervisor's reader has read so far
    seen,      \* the results of the supervisor's completed parses
    tree,      \* an OptionValueTree
    tlog,      \* the calls made on tree, with their results
    driver,    \* the shrink loop running on tree: its kind and position
    strat,     \* the strategy under construction by weighted
    runner     \* number of random draws taken from the TestRunner

mergeVars == <<other>>
parseVars == <<input>>
crashVars == <<worker, wstep, launches, spc, sbuf, seen>>
treeVars  == <<tree, tlog, driver, strat, runner>>
vars == <<file, self, other, status, hist, op, input,
          worker, wstep, launches, spc, sbuf, seen, tree, tlog,
          driver, strat, runner>>

(***************************************************************************)
(* Bounds of the model.                                                    *)
(***************************************************************************)
MaxSteps == 2      \* longest steps vector of an in-memory Replay
MaxOps == 3        \* file operations per run of the lifecycle
MaxAppends == 2    \* steps the workers append to a shared file
MaxLaunches == 2   \* workers started one after the other
MaxParses == 2     \* parses the supervisor performs
MaxCalls == 6      \* calls made on one value tree
RangeEnd == 4      \* the integer delegate generates 0 .. RangeEnd - 1

(***************************************************************************)
(* Bytes and u32 words.                                                    *)
(***************************************************************************)
NL == "\n"
BadByte == "0xFF"
NonAscii == "U+00E9"
Digits == <<"0", "1", "2", "3", "4", "5", "6", "7", "8", "9">>
Whitespace == {" ", "\t", "\r", NL}

Half == 65536
U32(hi, lo) == <<hi, lo>>
U32Max == U32(Half - 1, Half - 1)
U32Zero == U32(0, 0)

IsDigit(c) == \E d \in 1..10 : Digits[d] = c
DigitVal(c) == (CHOOSE d \in 1..10 : Digits[d] = c) - 1

\* core::fmt::Display for u32, used by writeln!(file, "{}", word)
DivMod10(w) ==
    LET r1 == w[1] % 10
        t  == r1 * Half + w[2]
    IN  [q |-> U32(w[1] \div 10, t \div 10), r |-> t % 10]

RECURSIVE FmtU32(_)
FmtU32(w) ==
    IF w[1] = 0 /\ w[2] < 10
    THEN <<Digits[w[2] + 1]>>
    ELSE FmtU32(DivMod10(w).q) \o <<Digits[DivMod10(w).r + 1]>>

\* str::trim
RECURSIVE TrimStart(_)
TrimStart(s) ==
    IF s # <<>> /\ Head(s) \in Whitespace THEN TrimStart(Tail(s)) ELSE s

RECURSIVE TrimEnd(_)
TrimEnd(s) ==
    IF s # <<>> /\ s[Len(s)] \in Whitespace
    THEN TrimEnd(SubSeq(s, 1, Len(s) - 1))
    ELSE s

Trim(s) == TrimEnd(TrimStart(s))

\* variant: the digits are accumulated in an i32 (parse::<i32>)
MulAdd10_i32(acc, d) ==
    LET t  == acc[2] * 10 + d
        hi == acc[1] * 10 + (t \div Half)
    IN  [ok |-> hi < Half \div 2, val |-> U32(hi % Half, t % Half)]

\* acc * 10 + d with the overflow check of checked_mul / checked_add
MulAdd10(acc, d) ==
    LET t  == acc[2] * 10 + d
        hi == acc[1] * 10 + (t \div Half)
    IN  [ok |-> hi < Half, val |-> U32(hi % Half, t % Half)]

RECURSIVE ParseDigits(_, _)
ParseDigits(s, acc) ==
    IF s = <<>> THEN [ok |-> TRUE, val |-> acc]
    ELSE IF ~IsDigit(Head(s)) THEN [ok |-> FALSE, val |-> U32Zero]
    ELSE LET n == MulAdd10(acc, DigitVal(Head(s)))
         IN  IF n.ok THEN ParseDigits(Tail(s), n.val)
             ELSE [ok |-> FALSE, val |-> U32Zero]

\* line.trim().parse::<u32>()
ParseU32(line) ==
    LET t == Trim(line)
        d == IF t # <<>> /\ Head(t) = "+" THEN Tail(t) ELSE t
    IN  IF d = <<>> THEN [ok |-> FALSE, val |-> U32Zero]
        ELSE ParseDigits(d, U32Zero)

(***************************************************************************)
(* TestCaseResult and Replay.                                              *)
(***************************************************************************)
Pass == [tag |-> "Pass", reason |-> ""]
Fail(r) == [tag |-> "Fail", reason |-> r]
Reject(r) == [tag |-> "Reject", reason |-> r]

\* the results a live test run produces
LiveSteps == {Pass, Fail("assertion failed"), Reject("filtered out")}

Replay(seed, steps) == [seed |-> seed, steps |-> steps]

InProgress(r) == [kind |-> "InProgress", replay |-> r]
Terminated(r) == [kind |-> "Terminated", replay |-> r]
Corrupt == [kind |-> "Corrupt"]
IoErr == [kind |-> "Err"]
NotParsed == [kind |-> "NotParsed"]

\* sample seeds: words 0, 2^32-1, 2^32-2, 2^16, and values in between
Seeds == { <<U32Zero, U32Max, U32(0, 7), U32(152, 38528)>>,
           <<U32Max, U32(1, 0), U32Zero, U32(Half - 1, Half - 2)>> }

SeqsUpTo(S, n) == UNION { [1..k -> S] : k \in 0..n }

Replays == { Replay(sd, st) : sd \in Seeds, st \in SeqsUpTo(LiveSteps, MaxSteps) }

(***************************************************************************)
(* The file-format functions.                                              *)
(***************************************************************************)
\* variant: the glyphs of Reject and Fail exchanged
step_to_char_swapped(step) ==
    CASE step.tag = "Pass" -> "+"
      [] step.tag = "Reject" -> "-"
      [] step.tag = "Fail" -> "!"

step_to_char(step) ==
    CASE step.tag = "Pass" -> "+"
      [] step.tag = "Reject" -> "!"
      [] step.tag = "Fail" -> "-"

\* variant: the file is opened with truncate(true)
open_file_truncate(content) == <<>>

\* fs::OpenOptions read + append + create, truncate(false): the content of
\* an existing file is kept
open_file(content) == content

\* a write on a handle opened by open_file lands at the end of the file
write_bytes(content, bytes) == content \o bytes

append(content, step) == write_bytes(content, <<step_to_char(step)>>)

\* variant: the termination mark mistyped as the Reject glyph
terminate_typo(content) == write_bytes(content, <<"!">>)

terminate(content) == write_bytes(content, <<".">>)

complete(content) == write_bytes(content, <<".">>)

\* variant: the seed words written last to first
seed_lines_reversed(seed) ==
    FmtU32(seed[4]) \o <<NL>> \o FmtU32(seed[3]) \o <<NL>> \o
    FmtU32(seed[2]) \o <<NL>> \o FmtU32(seed[1]) \o <<NL>>

seed_lines(seed) ==
    FmtU32(seed[1]) \o <<NL>> \o FmtU32(seed[2]) \o <<NL>> \o
    FmtU32(seed[3]) \o <<NL>> \o FmtU32(seed[4]) \o <<NL>>

step_data(steps) == [i \in 1..Len(steps) |-> step_to_char(steps[i])]

init_file(r, content) ==
    write_bytes(write_bytes(content, seed_lines(r.seed)), step_data(r.steps))

\* BufRead::read_line from position pos (1-based): the bytes up to and
\* including the first newline, or up to the end of the input; an error
\* when they are not valid UTF-8
LineEnd(bytes, pos) ==
    IF \E i \in pos..Len(bytes) : bytes[i] = NL
    THEN CHOOSE i \in pos..Len(bytes) :
            bytes[i] = NL /\ \A j \in pos..(i - 1) : bytes[j] # NL
    ELSE Len(bytes)

read_line(bytes, pos) ==
    LET e == LineEnd(bytes, pos)
        l == SubSeq(bytes, pos, e)
    IN  [err |-> \E i \in 1..Len(l) : l[i] = BadByte, line |-> l, next |-> e + 1]

RECURSIVE parse_steps(_, _, _, _)
\* variant: an unrecognized character ends the steps instead of
\* rejecting the file
parse_steps_lenient(line, i, seed, steps) ==
    IF i > Len(line) THEN InProgress(Replay(seed, steps))
    ELSE CASE line[i] = "+" -> parse_steps(line, i + 1, seed, Append(steps, Pass))
           [] line[i] = "-" ->
                parse_steps(line, i + 1, seed,
                            Append(steps, Fail("failed in other process")))
           [] line[i] = "!" ->
                parse_steps(line, i + 1, seed,
                            Append(steps, Reject("rejected in other process")))
           [] line[i] = "." -> Terminated(Replay(seed, steps))
           [] OTHER -> InProgress(Replay(seed, steps))

\* variant: a '.' ends the replay only when it is the last character
parse_steps_last_dot(line, i, seed, steps) ==
    IF i > Len(line) THEN InProgress(Replay(seed, steps))
    ELSE CASE line[i] = "+" -> parse_steps(line, i + 1, seed, Append(steps, Pass))
           [] line[i] = "-" ->
                parse_steps(line, i + 1, seed,
                            Append(steps, Fail("failed in other process")))
           [] line[i] = "!" ->
                parse_steps(line, i + 1, seed,
                            Append(steps, Reject("rejected in other process")))
           [] line[i] = "." ->
                IF i = Len(line) THEN Terminated(Replay(seed, steps))
                ELSE parse_steps(line, i + 1, seed, steps)
           [] OTHER -> Corrupt

parse_steps(line, i, seed, steps) ==
    IF i > Len(line) THEN InProgress(Replay(seed, steps))
    ELSE CASE line[i] = "+" -> parse_steps(line, i + 1, seed, Append(steps, Pass))
           [] line[i] = "-" ->
                parse_steps(line, i + 1, seed,
                            Append(steps, Fail("failed in other process")))
           [] line[i] = "!" ->
                parse_steps(line, i + 1, seed,
                            Append(steps, Reject("rejected in other process")))
           [] line[i] = "." -> Terminated(Replay(seed, steps))
           [] OTHER -> Corrupt

\* fault names the I/O call that fails: "none", "seek", or "read1".."read5"
ReadNames == <<"read1", "read2", "read3", "read4", "read5">>
Faults == {"none", "seek"} \cup {ReadNames[i] : i \in 1..5}

RECURSIVE parse_seed(_, _, _, _, _)
parse_seed(bytes, pos, k, seed, fault) ==
    LET rl == read_line(bytes, pos)
    IN  IF fault = ReadNames[k] \/ rl.err THEN IoErr
        ELSE IF k = 5 THEN parse_steps(rl.line, 1, seed, <<>>)
        ELSE LET w == ParseU32(rl.line)
             IN  IF w.ok
                 THEN parse_seed(bytes, rl.next, k + 1, Append(seed, w.val), fault)
                 ELSE Corrupt

parse_from(bytes, fault) ==
    IF fault = "seek" THEN IoErr
    ELSE parse_seed(bytes, 1, 1, <<>>, fault)

(***************************************************************************)
(* Values of the variables a specification does not use.                   *)
(***************************************************************************)
NoStep == [tag |-> "None", reason |-> ""]
Op(name, step) == [name |-> name, step |-> step]
NoReplay == Replay(<<U32Zero, U32Zero, U32Zero, U32Zero>>, <<>>)
NoTree == [strategy |-> "none"]

NoInput == [lines |-> <<>>, n |-> 0, nl |-> FALSE, tail |-> <<>>]

MergeIdle == other = NoReplay
ParseIdle == input = NoInput
CrashIdle ==
    /\ worker = "none" /\ wstep = NoStep /\ launches = 0
    /\ spc = "idle" /\ sbuf = <<>> /\ seen = <<>>
NoDriver == [mode |-> "none", pc |-> "done"]
NoStrategy == [x |-> 0, delegate |-> 0, call |-> "none", state |-> "none", result |-> [none |-> TRUE]]
DriverIdle == driver = NoDriver /\ strat = NoStrategy /\ runner = 0
TreeIdle == tree = NoTree /\ tlog = <<>> /\ DriverIdle

(***************************************************************************)
(* Life cycle of one replay file: the runner writes the initial snapshot   *)
(* of `self`, steps are appended, the run is terminated, and the file is   *)
(* parsed at any moment.  hist records the write operations performed.     *)
(***************************************************************************)
Init ==
    /\ file = <<>>
    /\ self \in Replays
    /\ status = NotParsed
    /\ hist = <<>>
    /\ op = Op("new", NoStep)
    /\ MergeIdle /\ ParseIdle /\ CrashIdle /\ TreeIdle

InitFile ==
    /\ Len(hist) < MaxOps
    /\ file' = init_file(self, file)
    /\ hist' = Append(hist, Op("init_file", NoStep))
    /\ op' = Op("init_file", NoStep)
    /\ UNCHANGED <<self, status, mergeVars, parseVars, crashVars, treeVars>>

AppendStep ==
    /\ Len(hist) < MaxOps
    /\ \E s \in LiveSteps :
        /\ file' = append(file, s)
        /\ hist' = Append(hist, Op("append", s))
        /\ op' = Op("append", s)
    /\ UNCHANGED <<self, status, mergeVars, parseVars, crashVars, treeVars>>

Terminate ==
    /\ Len(hist) < MaxOps
    /\ file' = terminate(file)
    /\ hist' = Append(hist, Op("terminate", NoStep))
    /\ op' = Op("terminate", NoStep)
    /\ UNCHANGED <<self, status, mergeVars, parseVars, crashVars, treeVars>>

Complete ==
    /\ Len(hist) < MaxOps
    /\ file' = complete(file)
    /\ hist' = Append(hist, Op("complete", NoStep))
    /\ op' = Op("complete", NoStep)
    /\ UNCHANGED <<self, status, mergeVars, parseVars, crashVars, treeVars>>

ParseFrom ==
    /\ status' = parse_from(file, "none")
    /\ op' = Op("parse_from", NoStep)
    /\ UNCHANGED <<file, self, hist, mergeVars, parseVars, crashVars, treeVars>>

Next == InitFile \/ AppendStep \/ Terminate \/ Complete \/ ParseFrom

Spec == Init /\ [][Next]_vars

(***************************************************************************)
(* init_file cut short: the writer stops after any number of the bytes     *)
(* init_file writes (the process is killed between or inside the writes of *)
(* writeln! and write_all), and the file is parsed as it stands.           *)
(***************************************************************************)
TornOp(k) == [name |-> "init_file", step |-> NoStep, written |-> k]

InitTorn == Init

InitFileTorn ==
    /\ op.name = "new"
    /\ LET out == init_file(self, open_file(file))
       IN  \E k \in 0..Len(out) :
              /\ file' = SubSeq(out, 1, k)
              /\ op' = TornOp(k)
    /\ UNCHANGED <<self, status, hist, mergeVars, parseVars, crashVars, treeVars>>

NextTorn == InitFileTorn \/ ParseFrom

SpecTorn == InitTorn /\ [][NextTorn]_vars

(***************************************************************************)
(* Replay::merge on arbitrary pairs of replays.  `other` may grow between  *)
(* merges, as the replay parsed from a file a child keeps appending to.    *)
(***************************************************************************)
\* variant: self takes over the steps of a longer other
merge_replace(a, b) ==
    IF Len(b.steps) > Len(a.steps) THEN [a EXCEPT !.steps = b.steps] ELSE a

\* variant: extend_from_slice(&other.steps) without the [sl..] offset
merge_all(a, b) ==
    IF Len(b.steps) > Len(a.steps) THEN [a EXCEPT !.steps = a.steps \o b.steps] ELSE a

merge(a, b) ==
    IF Len(b.steps) > Len(a.steps)
    THEN [a EXCEPT !.steps = a.steps \o SubSeq(b.steps, Len(a.steps) + 1, Len(b.steps))]
    ELSE a

OtherSteps == LiveSteps \cup {Fail("failed in other process")}
Others == { Replay(sd, st) : sd \in Seeds, st \in SeqsUpTo(OtherSteps, MaxSteps + 1) }

MergeOp(old) == [name |-> "merge", step |-> NoStep, old |-> old]

InitMerge ==
    /\ self \in Replays
    /\ other \in Others
    /\ file = <<>> /\ status = NotParsed /\ hist = <<>>
    /\ op = Op("new", NoStep)
    /\ ParseIdle /\ CrashIdle /\ TreeIdle

Merge ==
    /\ self' = merge(self, other)
    /\ op' = MergeOp(self)
    /\ UNCHANGED <<file, status, hist, other, parseVars, crashVars, treeVars>>

OtherGrows ==
    /\ Len(other.steps) < MaxSteps + 1
    /\ \E s \in OtherSteps : other' = [other EXCEPT !.steps = Append(@, s)]
    /\ op' = Op("grow", NoStep)
    /\ UNCHANGED <<file, self, status, hist, parseVars, crashVars, treeVars>>

NextMerge == Merge \/ OtherGrows

SpecMerge == InitMerge /\ [][NextMerge]_vars

(***************************************************************************)
(* parse_from on arbitrary files.  A file is assembled from up to four     *)
(* header lines and, after a complete header, an outcome section; input    *)
(* keeps the pieces.  Any one I/O call of parse_from may fail.             *)
(***************************************************************************)
\* texts parse::<u32> accepts after trim: 0, 2^32-1, a plus sign, leading
\* zeros, surrounding whitespace
GoodLines == { <<"0">>,
               <<"4", "2", "9", "4", "9", "6", "7", "2", "9", "5">>,
               <<"+", "5">>,
               <<"0", "0", "7">>,
               <<" ", "7", "\r">> }

\* texts it rejects: empty, non-numeric, negative, 2^32, mixed, a lone
\* sign, two numbers, a non-ASCII character, a byte that is not UTF-8
BadLines == { <<>>,
              <<"x">>,
              <<"-", "1">>,
              <<"4", "2", "9", "4", "9", "6", "7", "2", "9", "6">>,
              <<"1", "a">>,
              <<"+">>,
              <<"1", " ", "2">>,
              <<NonAscii>>,
              <<"7", BadByte>> }

BaseLines == { <<"0">>, <<"4", "2", "9", "4", "9", "6", "7", "2", "9", "5">>, <<"x">> }

\* four header lines: one line is any sample, the others are base lines
Headers ==
    { [i \in 1..4 |-> IF i = j THEN l ELSE b[i]] :
        j \in 1..4, l \in GoodLines \cup BadLines, b \in [1..4 -> BaseLines] }

Tails == { <<>>, <<"+">>, <<"+", "-", "!">>, <<".">>, <<"-", ".">>,
           <<"+", ".", "x">>, <<".", "+">>, <<"!", ".", NL, "x">>,
           <<"x">>, <<"+", "x", ".">>, <<"+", NL>>, <<"+", NL, "+">>, <<NL>>,
           <<"-", " ">>, <<NonAscii>>, <<"+", NonAscii, "+">>,
           <<"+", BadByte>>, <<".", BadByte>>, <<".", NL, BadByte>> }

RECURSIVE JoinLines(_, _, _)
JoinLines(h, n, nl) ==
    IF n = 0 THEN <<>>
    ELSE JoinLines(h, n - 1, TRUE) \o h[n] \o (IF nl THEN <<NL>> ELSE <<>>)

Assemble(in) == JoinLines(in.lines, in.n, in.nl) \o in.tail

\* the first n lines of a header, the last one with or without its newline
Cut(h, n) == [i \in 1..4 |-> IF i <= n THEN h[i] ELSE <<>>]

Inputs ==
    { [lines |-> h, n |-> 4, nl |-> TRUE, tail |-> t] : h \in Headers, t \in Tails }
    \cup
    { [lines |-> Cut(h, n), n |-> n, nl |-> nl, tail |-> <<>>] :
        h \in Headers, n \in 1..4, nl \in BOOLEAN }
    \cup
    { [lines |-> Cut(<<>>, 0), n |-> 0, nl |-> FALSE, tail |-> <<>>] }

ParseOp(fault) == [name |-> "parse_from", step |-> NoStep, fault |-> fault]

InitParse ==
    /\ input \in Inputs
    /\ file = Assemble(input)
    /\ self = NoReplay /\ status = NotParsed /\ hist = <<>>
    /\ op = Op("new", NoStep)
    /\ MergeIdle /\ CrashIdle /\ TreeIdle

ParseInput ==
    /\ op.name = "new"
    /\ \E f \in Faults :
        /\ status' = parse_from(file, f)
        /\ op' = ParseOp(f)
    /\ UNCHANGED <<file, self, hist, input, mergeVars, crashVars, treeVars>>

NextParse == ParseInput

SpecParse == InitParse /\ [][NextParse]_vars

(***************************************************************************)
(* The replay file shared by a supervisor and its workers.  The supervisor *)
(* writes the initial snapshot, then starts workers one at a time; a       *)
(* worker appends one glyph per test case and may be killed at any point,  *)
(* before or after the write of a glyph reaches the file.  The supervisor  *)
(* parses the file whenever it likes: a parse seeks to the start and reads *)
(* until a read returns no more bytes, while the worker keeps running.     *)
(* Each read returns the bytes present at that moment (the file is shorter *)
(* than BufReader's buffer).                                               *)
(***************************************************************************)
CrashReplays ==
    { Replay(sd, st) : sd \in Seeds, st \in {<<>>, <<Pass, Fail("assertion failed")>>} }

InitCrash ==
    /\ self \in CrashReplays
    /\ file = init_file(self, open_file(<<>>))
    /\ status = NotParsed /\ hist = <<>>
    /\ op = Op("init_file", NoStep)
    /\ worker = "none" /\ wstep = NoStep /\ launches = 0
    /\ spc = "idle" /\ sbuf = <<>> /\ seen = <<>>
    /\ MergeIdle /\ ParseIdle /\ TreeIdle

\* the supervisor starts a worker, which re-opens the file
Launch ==
    /\ worker \in {"none", "dead"}
    /\ launches < MaxLaunches
    /\ file' = open_file(file)
    /\ worker' = "idle"
    /\ launches' = launches + 1
    /\ op' = Op("open_file", NoStep)
    /\ UNCHANGED <<self, status, hist, wstep, spc, sbuf, seen,
                   mergeVars, parseVars, treeVars>>

\* the worker has the result of a test case and calls append
WorkerBegin ==
    /\ worker = "idle"
    /\ Len(hist) < MaxAppends
    /\ \E s \in LiveSteps : wstep' = s
    /\ worker' = "writing"
    /\ UNCHANGED <<file, self, status, hist, op, launches, spc, sbuf, seen,
                   mergeVars, parseVars, treeVars>>

\* the one-byte write of append reaches the file
WorkerWrite ==
    /\ worker = "writing"
    /\ file' = append(file, wstep)
    /\ hist' = Append(hist, Op("append", wstep))
    /\ op' = Op("append", wstep)
    /\ worker' = "idle"
    /\ wstep' = NoStep
    /\ UNCHANGED <<self, status, launches, spc, sbuf, seen,
                   mergeVars, parseVars, treeVars>>

\* the worker is killed, between or inside appends
Kill ==
    /\ worker \in {"idle", "writing"}
    /\ worker' = "dead"
    /\ wstep' = NoStep
    /\ op' = Op("kill", NoStep)
    /\ UNCHANGED <<file, self, status, hist, launches, spc, sbuf, seen,
                   mergeVars, parseVars, treeVars>>

\* parse_from: file.seek(SeekFrom::Start(0))
SupSeek ==
    /\ spc = "idle"
    /\ Len(seen) < MaxParses
    /\ spc' = "reading"
    /\ sbuf' = <<>>
    /\ UNCHANGED <<file, self, status, hist, op, worker, wstep, launches, seen,
                   mergeVars, parseVars, treeVars>>

\* parse_from: a read of the BufReader returns the bytes now in the file
SupRead ==
    /\ spc = "reading"
    /\ Len(sbuf) < Len(file)
    /\ sbuf' = sbuf \o SubSeq(file, Len(sbuf) + 1, Len(file))
    /\ UNCHANGED <<file, self, status, hist, op, worker, wstep, launches, spc, seen,
                   mergeVars, parseVars, treeVars>>

\* parse_from: a read returns 0 bytes, the last line ends, the result is built
SupFinish ==
    /\ spc = "reading"
    /\ Len(sbuf) >= Len(file)
    /\ status' = parse_from(sbuf, "none")
    /\ seen' = Append(seen, status')
    /\ spc' = "idle"
    /\ op' = Op("parse_from", NoStep)
    /\ UNCHANGED <<file, self, hist, worker, wstep, launches, sbuf,
                   mergeVars, parseVars, treeVars>>

NextCrash ==
    Launch \/ WorkerBegin \/ WorkerWrite \/ Kill \/ SupSeek \/ SupRead \/ SupFinish

SpecCrash == InitCrash /\ [][NextCrash]_vars

(***************************************************************************)
(* The Option strategy.  option.rs builds it as a TupleUnion of            *)
(* NoneStrategy and the delegate mapped through WrapSome.  The TupleUnion, *)
(* its value tree, float_to_weight and the delegates' value trees are      *)
(* defined outside option.rs; they follow sections 4.2 to 4.4 of the       *)
(* specification.                                                          *)
(***************************************************************************)
None == <<"None">>
WrapSome(t) == <<"Some", t>>
IsSome(v) == v[1] = "Some"

\* --- delegates: Just(42) and an integer range, as section 4.2 describes ---
JustValue == 42
NoPrev == -1
JustStrategy == [kind |-> "just", value |-> JustValue]
RangeStrategy == [kind |-> "range", lo |-> 0, hi |-> RangeEnd]
Delegates == {JustStrategy, RangeStrategy}

DelegateTrees(st) ==
    IF st.kind = "just"
    THEN { [kind |-> "just", curr |-> st.value] }
    ELSE { [kind |-> "range", lo |-> st.lo, curr |-> v, prev |-> NoPrev] :
             v \in st.lo..(st.hi - 1) }

DelegateCurrent(t) == t.curr

\* variant: the step is taken before it is found to reach lo
DelegateSimplifyEager(t) ==
    IF t.kind = "range" /\ t.curr > t.lo
    THEN LET c == t.lo + (t.curr - t.lo) \div 2
         IN  [ret |-> c > t.lo, tree |-> [t EXCEPT !.prev = t.curr, !.curr = c]]
    ELSE [ret |-> FALSE, tree |-> t]

\* a step toward lo, remembering the value it leaves
DelegateSimplify(t) ==
    IF t.kind = "range" /\ t.curr > t.lo
    THEN [ret |-> TRUE,
          tree |-> [t EXCEPT !.prev = t.curr,
                             !.curr = t.lo + (t.curr - t.lo) \div 2]]
    ELSE [ret |-> FALSE, tree |-> t]

\* undoes the last simplify step and rules out the value it had reached
DelegateComplicate(t) ==
    IF t.kind = "range" /\ t.prev # NoPrev
    THEN [ret |-> TRUE,
          tree |-> [t EXCEPT !.lo = t.curr + 1, !.curr = t.prev, !.prev = NoPrev]]
    ELSE [ret |-> FALSE, tree |-> t]

\* --- the alternatives of the union ---
NoneStrategy == [kind |-> "none"]
MapWrapSome(t) == [kind |-> "some", inner |-> t]

AltTrees(st) ==
    IF st.kind = "none" THEN {NoneStrategy}
    ELSE { MapWrapSome(d) : d \in DelegateTrees(st.inner) }

\* NoneStrategy as a value tree
NoneCurrent(t) == None
\* variant: simplify reports a change
NoneSimplifyTrue(t) == [ret |-> TRUE, tree |-> t]
NoneSimplify(t) == [ret |-> FALSE, tree |-> t]
\* variant: complicate reports a change
NoneComplicateTrue(t) == [ret |-> TRUE, tree |-> t]
NoneComplicate(t) == [ret |-> FALSE, tree |-> t]

\* the mapped delegate as a value tree
MapCurrent(t) == WrapSome(DelegateCurrent(t.inner))

MapSimplify(t) ==
    LET r == DelegateSimplify(t.inner)
    IN  [ret |-> r.ret, tree |-> MapWrapSome(r.tree)]

MapComplicate(t) ==
    LET r == DelegateComplicate(t.inner)
    IN  [ret |-> r.ret, tree |-> MapWrapSome(r.tree)]

AltCurrent(t) == IF t.kind = "none" THEN NoneCurrent(t) ELSE MapCurrent(t)
AltSimplify(t) == IF t.kind = "none" THEN NoneSimplify(t) ELSE MapSimplify(t)
AltComplicate(t) == IF t.kind = "none" THEN NoneComplicate(t) ELSE MapComplicate(t)

\* --- f64 values: num / ProbScale, or NaN ---
ProbScale == 10000
F64(n) == [nan |-> FALSE, num |-> n]
NaN == [nan |-> TRUE, num |-> 0]
\* >= and <= of f64: false when either side is NaN
Ge(a, b) == ~a.nan /\ ~b.nan /\ a.num >= b.num
Le(a, b) == ~a.nan /\ ~b.nan /\ a.num <= b.num

\* --- Probability ---
Panic == [panic |-> TRUE]
Panicked(v) == "panic" \in DOMAIN v
Probability(x) == [prob |-> x]

\* variant: the bounds exclusive
ProbabilityNewExclusive(x) ==
    IF ~Le(x, F64(0)) /\ ~Ge(x, F64(ProbScale)) /\ ~x.nan THEN Probability(x) ELSE Panic

\* Probability::new: assert!(prob >= 0.0 && prob <= 1.0)
ProbabilityNew(x) ==
    IF Ge(x, F64(0)) /\ Le(x, F64(ProbScale)) THEN Probability(x) ELSE Panic

FromF64(x) == ProbabilityNew(x)
IntoF64(p) == p.prob

\* impl Into<Probability>: a Probability as it is, an f64 through From<f64>
IntoProbability(a) == IF "prob" \in DOMAIN a THEN a ELSE FromF64(a)

prob(from) == IntoProbability(from)
ProbabilityDefault == prob(F64(ProbScale \div 2))

\* --- the weights ---
WeightBase == 1024

Max2(a, b) == IF a > b THEN a ELSE b
Min2(a, b) == IF a < b THEN a ELSE b

\* variant: the weights kept above 0 for every f
float_to_weight_clamped(f) ==
    LET scaled == (2 * f.num * WeightBase + ProbScale) \div (2 * ProbScale)
        pos == Max2(1, Min2(WeightBase - 1, scaled))
    IN  <<pos, WeightBase - pos>>

\* the weight of `true` and of `false` on the scale WeightBase: f scaled and
\* rounded, and its complement; neither is 0 for 0 < f < 1, while 0 and 1
\* give the degenerate pairs
float_to_weight(f) ==
    LET scaled == (2 * f.num * WeightBase + ProbScale) \div (2 * ProbScale)
        pos == IF f.num <= 0 THEN 0
               ELSE IF f.num >= ProbScale THEN WeightBase
               ELSE Max2(1, Min2(WeightBase - 1, scaled))
    IN  <<pos, WeightBase - pos>>

\* TupleUnion::new over the weighted alternatives
TupleUnion(alts) == [alts |-> alts]

\* variant: the Some alternative first
weighted_swapped(p, t) ==
    LET pr == IntoProbability(p)
    IN  IF Panicked(pr) THEN Panic
        ELSE LET w == float_to_weight(IntoF64(pr))
             IN  TupleUnion(<< [weight |-> w[1], strategy |-> MapWrapSome(t)],
                                [weight |-> w[2], strategy |-> NoneStrategy] >>)

\* variant: weight_some given to None and weight_none to Some
weighted_weights_swapped(p, t) ==
    LET pr == IntoProbability(p)
    IN  IF Panicked(pr) THEN Panic
        ELSE LET w == float_to_weight(IntoF64(pr))
             IN  TupleUnion(<< [weight |-> w[1], strategy |-> NoneStrategy],
                                [weight |-> w[2], strategy |-> MapWrapSome(t)] >>)

weighted(p, t) ==
    LET pr == IntoProbability(p)
    IN  IF Panicked(pr) THEN Panic
        ELSE LET w == float_to_weight(IntoF64(pr))
             IN  TupleUnion(<< [weight |-> w[2], strategy |-> NoneStrategy],
                                [weight |-> w[1], strategy |-> MapWrapSome(t)] >>)

of(t) == weighted(ProbabilityDefault, t)

\* --- the value tree of the union ---
NoPick == -1

\* new_tree: one alternative is drawn by weight; the trees of it and of
\* the alternatives before it are generated
UnionTrees(alts) ==
    { [alts |-> alts, pick |-> k - 1, min_pick |-> 0, prev_pick |-> NoPick,
       options |-> o] :
        k \in { i \in 1..Len(alts) : alts[i].weight > 0 },
        o \in [1..Len(alts) -> UNION { AltTrees(alts[i].strategy) : i \in 1..Len(alts) }
                                 \cup {NoTree}] }

WellFormed(t) ==
    \A i \in 1..Len(t.alts) :
        IF i <= t.pick + 1 THEN t.options[i] \in AltTrees(t.alts[i].strategy)
        ELSE t.options[i] = NoTree

UnionCurrent(t) == AltCurrent(t.options[t.pick + 1])

\* variant: complicate only asks the picked alternative
UnionComplicateInner(t) ==
    LET r == AltComplicate(t.options[t.pick + 1])
    IN  [ret |-> r.ret, tree |-> [t EXCEPT !.options[t.pick + 1] = r.tree]]

\* the move to the alternative before the picked one comes first; the
\* picked alternative's own tree shrinks once that move is ruled out
UnionSimplify(t) ==
    IF t.pick > t.min_pick
    THEN [ret |-> TRUE,
          tree |-> [t EXCEPT !.prev_pick = t.pick, !.pick = t.pick - 1]]
    ELSE LET r == AltSimplify(t.options[t.pick + 1])
         IN  IF r.ret
             THEN [ret |-> TRUE,
                   tree |-> [t EXCEPT !.options[t.pick + 1] = r.tree,
                                      !.prev_pick = NoPick]]
             ELSE [ret |-> FALSE, tree |-> [t EXCEPT !.options[t.pick + 1] = r.tree]]

\* undoes the move between alternatives if that was the last step, else
\* asks the picked alternative
UnionComplicate(t) ==
    IF t.prev_pick # NoPick
    THEN [ret |-> TRUE,
          tree |-> [t EXCEPT !.pick = t.prev_pick, !.min_pick = t.prev_pick,
                             !.prev_pick = NoPick]]
    ELSE LET r == AltComplicate(t.options[t.pick + 1])
         IN  [ret |-> r.ret, tree |-> [t EXCEPT !.options[t.pick + 1] = r.tree]]

Call(name, ret, before, after) ==
    [call |-> name, ret |-> ret, before |-> before, after |-> after]

InitTree ==
    /\ \E d \in Delegates : tree \in { t \in UnionTrees(of(d).alts) : WellFormed(t) }
    /\ tlog = <<>>
    /\ DriverIdle
    /\ file = <<>> /\ self = NoReplay /\ status = NotParsed /\ hist = <<>>
    /\ op = Op("new", NoStep)
    /\ MergeIdle /\ ParseIdle /\ CrashIdle

TreeCurrent ==
    /\ Len(tlog) < MaxCalls
    /\ tlog' = Append(tlog, Call("current", FALSE, UnionCurrent(tree), UnionCurrent(tree)))
    /\ UNCHANGED <<tree, driver, strat, runner, file, self, status, hist, op,
                   mergeVars, parseVars, crashVars>>

TreeSimplify ==
    /\ Len(tlog) < MaxCalls
    /\ LET r == UnionSimplify(tree)
       IN  /\ tree' = r.tree
           /\ tlog' = Append(tlog, Call("simplify", r.ret, UnionCurrent(tree),
                                        UnionCurrent(r.tree)))
    /\ UNCHANGED <<driver, strat, runner, file, self, status, hist, op,
                   mergeVars, parseVars, crashVars>>

TreeComplicate ==
    /\ Len(tlog) < MaxCalls
    /\ LET r == UnionComplicate(tree)
       IN  /\ tree' = r.tree
           /\ tlog' = Append(tlog, Call("complicate", r.ret, UnionCurrent(tree),
                                        UnionCurrent(r.tree)))
    /\ UNCHANGED <<driver, strat, runner, file, self, status, hist, op,
                   mergeVars, parseVars, crashVars>>

NextTree == TreeCurrent \/ TreeSimplify \/ TreeComplicate

SpecTree == InitTree /\ [][NextTree]_vars

(***************************************************************************)
(* Shrink loops on an Option value tree.  Three drivers: simplify() until  *)
(* it returns false; `while simplify() || complicate()`; and the search of *)
(* a test driver, which calls simplify() when the test fails on current()  *)
(* and complicate() when it passes, until the call returns false.  The     *)
(* verdict of the test is arbitrary.  tlog keeps the last call only.  A    *)
(* driver that is not done makes its next call: the loops run in one       *)
(* thread and nothing blocks them.                                         *)
(***************************************************************************)
Modes == {"simplify", "loop", "search"}
Driver(mode, pc) == [mode |-> mode, pc |-> pc]

InitShrink ==
    /\ \E d \in Delegates : tree \in { t \in UnionTrees(of(d).alts) : WellFormed(t) }
    /\ driver \in { Driver(md, "simplify") : md \in Modes }
    /\ tlog = <<>>
    /\ strat = NoStrategy /\ runner = 0
    /\ file = <<>> /\ self = NoReplay /\ status = NotParsed /\ hist = <<>>
    /\ op = Op("new", NoStep)
    /\ MergeIdle /\ ParseIdle /\ CrashIdle

\* the loop calls simplify(): again if it returned true; else complicate()
\* in the while loop, and the end for the others
ShrinkSimplify ==
    /\ driver.pc = "simplify"
    /\ LET r == UnionSimplify(tree)
       IN  /\ tree' = r.tree
           /\ tlog' = <<Call("simplify", r.ret, UnionCurrent(tree), UnionCurrent(r.tree))>>
           /\ driver' = Driver(driver.mode,
                               IF r.ret THEN "simplify"
                               ELSE IF driver.mode = "loop" THEN "complicate" ELSE "done")
    /\ UNCHANGED <<strat, runner, file, self, status, hist, op,
                   mergeVars, parseVars, crashVars>>

\* `|| complicate()`: back to simplify() if it returned true, else the end
ShrinkComplicate ==
    /\ driver.pc = "complicate"
    /\ LET r == UnionComplicate(tree)
       IN  /\ tree' = r.tree
           /\ tlog' = <<Call("complicate", r.ret, UnionCurrent(tree),
                              UnionCurrent(r.tree))>>
           /\ driver' = Driver(driver.mode, IF r.ret THEN "simplify" ELSE "done")
    /\ UNCHANGED <<strat, runner, file, self, status, hist, op,
                   mergeVars, parseVars, crashVars>>

\* the search: the test passed on current(), so the driver backs off
SearchPassed ==
    /\ driver.mode = "search" /\ driver.pc = "simplify"
    /\ LET r == UnionComplicate(tree)
       IN  /\ tree' = r.tree
           /\ tlog' = <<Call("complicate", r.ret, UnionCurrent(tree),
                              UnionCurrent(r.tree))>>
           /\ driver' = Driver(driver.mode, IF r.ret THEN "simplify" ELSE "done")
    /\ UNCHANGED <<strat, runner, file, self, status, hist, op,
                   mergeVars, parseVars, crashVars>>

NextShrink == ShrinkSimplify \/ ShrinkComplicate \/ SearchPassed

SpecShrink == InitShrink /\ [][NextShrink]_vars /\ WF_vars(NextShrink)

(***************************************************************************)
(* NoneStrategy on its own: new_tree, then any calls on the tree.          *)
(***************************************************************************)
\* variant: new_tree takes one draw from the runner
NoneNewTreeDrawing(st, rng) == [ok |-> TRUE, tree |-> st, runner |-> rng + 1]

\* Strategy::new_tree of NoneStrategy: Ok(*self), the runner is not used
NoneNewTree(st, rng) == [ok |-> TRUE, tree |-> st, runner |-> rng]

NewTreeOp(ok) == [name |-> "new_tree", step |-> NoStep, ok |-> ok]

InitLeaf ==
    /\ tree = NoTree /\ tlog = <<>> /\ DriverIdle
    /\ file = <<>> /\ self = NoReplay /\ status = NotParsed /\ hist = <<>>
    /\ op = Op("new", NoStep)
    /\ MergeIdle /\ ParseIdle /\ CrashIdle

LeafNewTree ==
    /\ tree = NoTree
    /\ LET r == NoneNewTree(NoneStrategy, runner)
       IN  /\ tree' = r.tree
           /\ runner' = r.runner
           /\ op' = NewTreeOp(r.ok)
    /\ UNCHANGED <<tlog, driver, strat, file, self, status, hist,
                   mergeVars, parseVars, crashVars>>

LeafCurrent ==
    /\ tree # NoTree
    /\ Len(tlog) < MaxCalls
    /\ tlog' = Append(tlog, Call("current", FALSE, NoneCurrent(tree), NoneCurrent(tree)))
    /\ UNCHANGED <<tree, driver, strat, runner, file, self, status, hist, op,
                   mergeVars, parseVars, crashVars>>

LeafSimplify ==
    /\ tree # NoTree
    /\ Len(tlog) < MaxCalls
    /\ LET r == NoneSimplify(tree)
       IN  /\ tree' = r.tree
           /\ tlog' = Append(tlog, Call("simplify", r.ret, NoneCurrent(tree),
                                        NoneCurrent(r.tree)))
    /\ UNCHANGED <<driver, strat, runner, file, self, status, hist, op,
                   mergeVars, parseVars, crashVars>>

LeafComplicate ==
    /\ tree # NoTree
    /\ Len(tlog) < MaxCalls
    /\ LET r == NoneComplicate(tree)
       IN  /\ tree' = r.tree
           /\ tlog' = Append(tlog, Call("complicate", r.ret, NoneCurrent(tree),
                                        NoneCurrent(r.tree)))
    /\ UNCHANGED <<driver, strat, runner, file, self, status, hist, op,
                   mergeVars, parseVars, crashVars>>

NextLeaf == LeafNewTree \/ LeafCurrent \/ LeafSimplify \/ LeafComplicate

SpecLeaf == InitLeaf /\ [][NextLeaf]_vars

(***************************************************************************)
(* Building an Option strategy and drawing a tree from it.  A probability  *)
(* is given as an f64; Probability::new, weighted and of are called on it  *)
(* and may panic; new_tree draws the alternative by weight.                *)
(***************************************************************************)
F64Samples ==
    {NaN} \cup { F64(n) : n \in {0 - ProbScale, -1, 0, 1, ProbScale \div 10,
                                  ProbScale \div 4, ProbScale \div 2,
                                  ProbScale - ProbScale \div 10, ProbScale - 1,
                                  ProbScale, ProbScale + 1, 2 * ProbScale} }

RECURSIVE WeightSum(_, _)
WeightSum(alts, n) == IF n = 0 THEN 0 ELSE WeightSum(alts, n - 1) + alts[n].weight

\* the alternative a random number r below the sum of the weights selects
pick_weighted(alts, r) ==
    CHOOSE i \in 1..Len(alts) : WeightSum(alts, i - 1) <= r /\ r < WeightSum(alts, i)

DrawnPicks(alts) ==
    { pick_weighted(alts, r) : r \in 0..(WeightSum(alts, Len(alts)) - 1) }

\* random draws of new_tree: one for the alternative, one for each range
\* value generated
Draws(t) ==
    1 + Cardinality({ i \in 1..Len(t.options) :
                        /\ t.options[i] # NoTree
                        /\ t.options[i].kind = "some"
                        /\ t.options[i].inner.kind = "range" })

Built(call, x, d, r) ==
    [x |-> x, delegate |-> d, call |-> call,
     state |-> IF Panicked(r) THEN "panicked"
               ELSE IF call = "new" THEN "probability" ELSE "strategy",
     result |-> r]

InitWeighted ==
    /\ strat \in { [x |-> a, delegate |-> d, call |-> "none", state |-> "new",
                     result |-> [none |-> TRUE]] : a \in F64Samples, d \in Delegates }
    /\ tree = NoTree /\ tlog = <<>> /\ driver = NoDriver /\ runner = 0
    /\ file = <<>> /\ self = NoReplay /\ status = NotParsed /\ hist = <<>>
    /\ op = Op("new", NoStep)
    /\ MergeIdle /\ ParseIdle /\ CrashIdle

CallProbabilityNew ==
    /\ strat.state = "new"
    /\ strat' = Built("new", strat.x, strat.delegate, ProbabilityNew(strat.x))
    /\ UNCHANGED <<tree, tlog, driver, runner, file, self, status, hist, op,
                   mergeVars, parseVars, crashVars>>

CallWeighted ==
    /\ strat.state = "new"
    /\ strat' = Built("weighted", strat.x, strat.delegate,
                      weighted(strat.x, strat.delegate))
    /\ UNCHANGED <<tree, tlog, driver, runner, file, self, status, hist, op,
                   mergeVars, parseVars, crashVars>>

CallOf ==
    /\ strat.state = "new"
    /\ strat' = Built("of", IntoF64(ProbabilityDefault), strat.delegate,
                      of(strat.delegate))
    /\ UNCHANGED <<tree, tlog, driver, runner, file, self, status, hist, op,
                   mergeVars, parseVars, crashVars>>

NewTree ==
    /\ strat.state = "strategy"
    /\ tree = NoTree
    /\ \E k \in DrawnPicks(strat.result.alts) :
          \E t \in { u \in UnionTrees(strat.result.alts) : WellFormed(u) } :
              /\ t.pick = k - 1
              /\ tree' = t
              /\ runner' = runner + Draws(t)
    /\ UNCHANGED <<strat, tlog, driver, file, self, status, hist, op,
                   mergeVars, parseVars, crashVars>>

NextWeighted == CallProbabilityNew \/ CallWeighted \/ CallOf \/ NewTree

SpecWeighted == InitWeighted /\ [][NextWeighted]_vars

(***************************************************************************)
(* Properties of the file life cycle and of merge.                         *)
(***************************************************************************)
Tags(steps) == [i \in 1..Len(steps) |-> steps[i].tag]
IsPrefix(s, t) == Len(s) <= Len(t) /\ SubSeq(t, 1, Len(s)) = s
Last(s) == s[Len(s)]
Front(s) == SubSeq(s, 1, Len(s) - 1)
Parsed == op.name = "parse_from"
HasReplay(st) == st.kind \in {"InProgress", "Terminated"}

\* the file was created by one init_file and then only appended to
InitThenAppends(h) ==
    /\ Len(h) >= 1
    /\ h[1].name = "init_file"
    /\ \A i \in 2..Len(h) : h[i].name = "append"

\* the tags the file should hold after InitThenAppends(h)
Recorded(h) == Tags(self.steps) \o [i \in 1..(Len(h) - 1) |-> h[i + 1].step.tag]

GlyphOf(tag) ==
    CASE tag = "Pass" -> "+" [] tag = "Fail" -> "-" [] tag = "Reject" -> "!"

\* C1: a replay written by init_file to an empty file parses as InProgress
\* with the same four seed words and, step by step, the same outcome tags.
RoundTrip ==
    (Parsed /\ hist = <<Op("init_file", NoStep)>>) =>
        /\ status.kind = "InProgress"
        /\ \A i \in 1..4 : status.replay.seed[i] = self.seed[i]
        /\ Len(status.replay.steps) = Len(self.steps)
        /\ \A i \in 1..Len(self.steps) :
              status.replay.steps[i].tag = self.steps[i].tag

RoundTripWitness ==
    /\ Parsed /\ hist = <<Op("init_file", NoStep)>>
    /\ self.seed[1] = U32Max /\ self.seed[3] = U32Zero
    /\ Tags(self.steps) = <<"Fail", "Reject">>

\* C3: after init_file, any appends and one terminate or complete, the file
\* parses as Terminated with the written seed and exactly the recorded
\* outcomes; without a terminator it parses as InProgress.
TerminatedDetection ==
    /\ (Parsed /\ Len(hist) >= 2 /\ InitThenAppends(Front(hist))
          /\ Last(hist).name \in {"terminate", "complete"}) =>
            /\ status.kind = "Terminated"
            /\ status.replay.seed = self.seed
            /\ Tags(status.replay.steps) = Recorded(Front(hist))
    /\ (Parsed /\ InitThenAppends(hist)) => status.kind = "InProgress"

TerminatedWitness ==
    /\ Parsed /\ Len(hist) = 3 /\ InitThenAppends(Front(hist))
    /\ hist[2].step.tag = "Reject"
    /\ Last(hist).name = "terminate"
    /\ Len(self.steps) = 1

\* C4: merge never shortens or rewrites the steps self already had, and
\* when other's steps strictly extend self's, self ends up with other's steps.
MergeMonotone ==
    op.name = "merge" =>
        /\ Len(self.steps) >= Len(op.old.steps)
        /\ IsPrefix(op.old.steps, self.steps)
        /\ (IsPrefix(op.old.steps, other.steps)
              /\ Len(other.steps) > Len(op.old.steps)) => self.steps = other.steps

MergeWitness ==
    /\ op.name = "merge"
    /\ IsPrefix(op.old.steps, other.steps)
    /\ Len(op.old.steps) = 1
    /\ Len(other.steps) = 3

\* C5: every append adds exactly the glyph of its outcome at the end of the
\* file and changes nothing else, so a file made by init_file and appends
\* parses to the initial steps followed by the appended outcomes in order.
AppendOnlyStep ==
    op'.name = "append" =>
        /\ file' = file \o <<GlyphOf(op'.step.tag)>>
        /\ self' = self

AppendOnlyParse ==
    (Parsed /\ InitThenAppends(hist)) =>
        /\ HasReplay(status)
        /\ Tags(status.replay.steps) = Recorded(hist)

AppendOnly == []AppendOnlyParse /\ [][AppendOnlyStep]_vars

AppendOnlyWitness ==
    /\ Parsed /\ InitThenAppends(hist) /\ Len(hist) = 3
    /\ hist[2].step.tag = "Fail" /\ hist[3].step.tag = "Reject"
    /\ Len(self.steps) = 2

(***************************************************************************)
(* Properties of parse_from on arbitrary files.                            *)
(***************************************************************************)
Glyphs == {"+", "-", "!", "."}
NoFault == Parsed /\ op.fault = "none"

\* every header line is present, newline-terminated and a valid u32 text
GoodHeader ==
    /\ input.n = 4 /\ input.nl
    /\ \A i \in 1..4 : input.lines[i] \in GoodLines

\* one of the first four lines is missing or is not a u32 text
BadHeader == \E i \in 1..4 : i > input.n \/ input.lines[i] \in BadLines

BadGlyphAnywhere(t) == \E i \in 1..Len(t) : t[i] \notin Glyphs

BadGlyphBeforeDot(t) ==
    \E i \in 1..Len(t) : t[i] \notin Glyphs /\ \A j \in 1..(i - 1) : t[j] # "."

\* the line holding the outcomes has a byte that is not valid UTF-8
InvalidText(t) ==
    \E i \in 1..Len(t) : t[i] = BadByte /\ \A j \in 1..(i - 1) : t[j] # NL

CorruptHeader ==
    (NoFault /\ BadHeader) => status = Corrupt

\* the I/O call named by the fault is reached: every line before it parsed
FaultHit ==
    /\ Parsed
    /\ \/ op.fault = "seek"
       \/ \E k \in 1..5 :
            /\ op.fault = ReadNames[k]
            /\ \A i \in 1..(k - 1) : i <= input.n /\ input.lines[i] \in GoodLines

\* C8: a failing seek or read makes parse_from return the I/O error; a
\* readable file with a bad seed line or an unrecognized byte in the part
\* of the outcome section that is examined (up to the first '.') makes it
\* return Corrupt; a readable file never yields an I/O error.
IoDistinctFromCorrupt ==
    /\ FaultHit => status = IoErr
    /\ (NoFault /\ (BadHeader \/ (GoodHeader /\ BadGlyphBeforeDot(input.tail))))
          => status = Corrupt
    /\ NoFault => status # IoErr

(***************************************************************************)
(* Properties of the shared replay file.                                   *)
(***************************************************************************)
\* C6: with the snapshot fully written before the first worker starts and
\* workers that only append and may be killed at any point, every parse of
\* the supervisor returns InProgress or Terminated with the original seed,
\* and its steps extend the steps returned by every earlier parse.
CrashSafe ==
    \A k \in 1..Len(seen) :
        /\ HasReplay(seen[k])
        /\ seen[k].replay.seed = self.seed
        /\ IsPrefix(Tags(self.steps), Tags(seen[k].replay.steps))
        /\ \A j \in 1..(k - 1) :
              IsPrefix(seen[j].replay.steps, seen[k].replay.steps)

CrashSafeWitness ==
    /\ Len(seen) = 2
    /\ launches = 2
    /\ worker = "dead"
    /\ Len(seen[1].replay.steps) = Len(self.steps) + 1
    /\ Len(seen[2].replay.steps) = Len(self.steps) + 2

(***************************************************************************)
(* Properties of the Option value tree.                                    *)
(***************************************************************************)
\* C9: when simplify() returns true and complicate() is the next call,
\* current() is again the value it had just before that simplify().
ComplicateInvertsSimplify ==
    \A i \in 1..(Len(tlog) - 1) :
        (tlog[i].call = "simplify" /\ tlog[i].ret /\ tlog[i + 1].call = "complicate")
            => tlog[i + 1].after = tlog[i].before

\* both kinds of step undone: the move to None and a step of the delegate
ComplicateInvertsWitness ==
    /\ Len(tlog) = 4
    /\ tlog[1].call = "simplify" /\ tlog[1].after = None
    /\ tlog[2].call = "complicate" /\ IsSome(tlog[2].after)
    /\ tlog[3].call = "simplify" /\ tlog[3].ret
    /\ IsSome(tlog[3].after) /\ tlog[3].after # tlog[3].before
    /\ tlog[4].call = "complicate"

\* no simplify or complicate call so far
Fresh(i) == \A j \in 1..(i - 1) : tlog[j].call = "current"

\* C10: None is the first alternative and the wrapped delegate the second;
\* on a fresh tree that is Some(v) the first simplify() returns true and
\* gives None; a simplify() that shrinks the inner value keeps it Some.
SomeShrinksToNoneFirst ==
    /\ tree.alts[1].strategy.kind = "none"
    /\ tree.alts[2].strategy.kind = "some"
    /\ \A i \in 1..Len(tlog) :
        (tlog[i].call = "simplify" /\ IsSome(tlog[i].before)) =>
            /\ Fresh(i) => (tlog[i].ret /\ tlog[i].after = None)
            /\ (tlog[i].ret /\ ~Fresh(i)) =>
                  (tlog[i].after = None
                     \/ (IsSome(tlog[i].after) /\ tlog[i].after[2] < tlog[i].before[2]))

SomeShrinksWitness ==
    /\ Len(tlog) = 4
    /\ tlog[1].call = "current" /\ tlog[1].after = WrapSome(3)
    /\ tlog[2].call = "simplify" /\ tlog[2].after = None
    /\ tlog[3].call = "complicate"
    /\ tlog[4].call = "simplify" /\ tlog[4].after = WrapSome(1)

\* C18: merge has exactly this effect, whatever the two seeds and whether or
\* not self's steps are a prefix of other's: when other has more steps than
\* self, self.steps becomes its old steps followed by other's steps from the
\* old length on, so that it is as long as other's; otherwise self.steps is
\* unchanged.  self.seed and other are never changed, and merging the same
\* other a second time changes nothing.
MergeExactState ==
    op.name = "merge" =>
        LET old == op.old.steps
            n   == Len(old)
            m   == Len(other.steps)
        IN  /\ self.seed = op.old.seed
            /\ m > n =>
                  /\ Len(self.steps) = m
                  /\ \A i \in 1..m :
                        self.steps[i] = IF i <= n THEN old[i] ELSE other.steps[i]
            /\ m <= n => self.steps = old

MergeExactStep ==
    op'.name = "merge" =>
        /\ other' = other
        /\ op.name = "merge" => self' = self

MergeExact == []MergeExactState /\ [][MergeExactStep]_vars

MergeExactWitness ==
    /\ op.name = "merge"
    /\ op.old.seed # other.seed
    /\ Len(op.old.steps) = 1 /\ Len(other.steps) = 3
    /\ op.old.steps[1] # other.steps[1]
    /\ self.steps = <<op.old.steps[1], other.steps[2], other.steps[3]>>

\* C19: Terminated is absorbing for readers: once a parse_from has returned
\* Terminated(r), every later parse_from of the same file, whatever was
\* written to it in between, returns Terminated with the same seed and the
\* same steps; nothing written after the first '.' is ever reported.
TerminatedAbsorbingStep ==
    (status.kind = "Terminated" /\ op'.name = "parse_from") => status' = status

TerminatedAbsorbing == [][TerminatedAbsorbingStep]_vars

TerminatedAbsorbingWitness ==
    /\ Parsed /\ status.kind = "Terminated"
    /\ Len(hist) = 3
    /\ hist[1].name = "init_file"
    /\ hist[2].name \in {"terminate", "complete"}
    /\ hist[3].name = "append"
    /\ Len(status.replay.steps) = Len(self.steps)

\* the cut falls strictly inside the digits of the fourth seed word
HeadLen(seed) ==
    Len(FmtU32(seed[1])) + Len(FmtU32(seed[2])) + Len(FmtU32(seed[3])) + 3
CutInFourthWord ==
    /\ Len(file) > HeadLen(self.seed)
    /\ Len(file) < HeadLen(self.seed) + Len(FmtU32(self.seed[4]))

SameReplayPrefix ==
    \/ status = Corrupt
    \/ /\ HasReplay(status)
       /\ status.replay.seed = self.seed
       /\ IsPrefix(Tags(status.replay.steps), Tags(self.steps))

\* C20 as claimed: the first k bytes of what init_file writes parse, for
\* every k, as Corrupt or as a status with r's seed and a prefix of r's steps.
TornSnapshotAnyCut == Parsed => SameReplayPrefix

\* C20: the first k bytes of what init_file writes for r parse as Corrupt or
\* as a status with r's seed and a prefix of r's steps, for every k that
\* does not fall strictly inside the digits of the fourth seed word; for a
\* k inside them the parse is InProgress with no steps, r's first three
\* seed words and, as fourth word, the number the written digits spell,
\* which differs from r's.
TornSnapshot ==
    Parsed =>
        IF CutInFourthWord
        THEN /\ status.kind = "InProgress"
             /\ status.replay.steps = <<>>
             /\ \A i \in 1..3 : status.replay.seed[i] = self.seed[i]
             /\ status.replay.seed[4] # self.seed[4]
             /\ FmtU32(status.replay.seed[4])
                   = SubSeq(file, HeadLen(self.seed) + 1, Len(file))
        ELSE SameReplayPrefix

TornSnapshotWitness ==
    /\ Parsed /\ CutInFourthWord
    /\ status.kind = "InProgress"
    /\ self.seed[4] = U32(152, 38528)
    /\ status.replay.seed[4] = U32(0, 100)
    /\ Len(self.steps) = 2

InUnitInterval(x) == ~x.nan /\ x.num >= 0 /\ x.num <= ProbScale
StrictlyInside(x) == ~x.nan /\ x.num > 0 /\ x.num < ProbScale

\* C14: Probability::new(x), and weighted(x, ..) through From<f64>, panic
\* for every x below 0.0, above 1.0 and for NaN, and nothing is clamped;
\* Probability::new(x) succeeds for every x from 0.0 to 1.0, both ends
\* included, and the value it holds converts back to x; the default
\* Probability is 0.5.
ProbabilityBounds ==
    /\ (strat.call \in {"new", "weighted"} /\ ~InUnitInterval(strat.x)) =>
          (strat.state = "panicked" /\ strat.result = Panic)
    /\ (strat.call = "new" /\ InUnitInterval(strat.x)) =>
          (strat.state = "probability" /\ IntoF64(strat.result) = strat.x)
    /\ strat.call = "of" => 2 * strat.x.num = ProbScale

ProbabilityBoundsWitness ==
    /\ strat.call = "new"
    /\ strat.x = NaN
    /\ strat.state = "panicked"

Abs(n) == IF n < 0 THEN 0 - n ELSE n

\* C17: for 0 < p < 1, weighted(p, d) gives None and Some two weights that
\* are both above 0 and sum to the scale; the weight of Some is p on that
\* scale (to within one unit) and the weight of None its complement, so
\* that weight_some of the weight_some + weight_none equally likely draws
\* give Some: half of them for of(d), at least as many for a larger p, and
\* a number that meets the bounds of the tests in option.rs for 0.1, 0.5
\* and 0.9; both None and Some can be drawn, also for p next to 0 or 1.
WeightAssignment ==
    (strat.state = "strategy" /\ StrictlyInside(strat.x)) =>
        LET alts == strat.result.alts
            wn   == alts[1].weight
            ws   == alts[2].weight
            p    == strat.x.num
        IN  /\ alts[1].strategy = NoneStrategy
            /\ alts[2].strategy = MapWrapSome(strat.delegate)
            /\ ws > 0 /\ wn > 0 /\ ws + wn = WeightBase
            /\ Abs(ws * ProbScale - p * WeightBase) <= ProbScale
            /\ Cardinality({ r \in 0..(ws + wn - 1) : pick_weighted(alts, r) = 2 }) = ws
            /\ strat.call = "of" => ws = wn
            /\ \A y \in F64Samples :
                  (StrictlyInside(y) /\ y.num < p) =>
                      weighted(y, strat.delegate).alts[2].weight <= ws
            /\ 10 * p = ProbScale => (50 * (ws + wn) <= 1000 * ws /\ 1000 * ws < 150 * (ws + wn))
            /\ 2 * p = ProbScale => (450 * (ws + wn) <= 1000 * ws /\ 1000 * ws < 550 * (ws + wn))
            /\ 10 * p = 9 * ProbScale =>
                  (800 * (ws + wn) <= 1000 * ws /\ 1000 * ws < 950 * (ws + wn))
            /\ DrawnPicks(alts) = {1, 2}

WeightAssignmentWitness ==
    /\ strat.call = "weighted" /\ strat.x = F64(1)
    /\ strat.result.alts[2].weight = 1
    /\ tree # NoTree
    /\ IsSome(UnionCurrent(tree))

\* C16: new_tree of NoneStrategy always succeeds and takes nothing from the
\* runner's random numbers; on its tree, after any sequence of simplify(),
\* complicate() and current() calls, current() is None and every
\* simplify() and complicate() so far has returned false.
NoneNeverShrinks ==
    /\ runner = 0
    /\ op.name = "new_tree" => (op.ok /\ tree = NoneStrategy)
    /\ tree # NoTree => NoneCurrent(tree) = None
    /\ \A i \in 1..Len(tlog) :
          /\ tlog[i].before = None /\ tlog[i].after = None
          /\ tlog[i].call \in {"simplify", "complicate"} => ~tlog[i].ret

NoneNeverShrinksWitness ==
    /\ op.name = "new_tree"
    /\ Len(tlog) = 4
    /\ tlog[1].call = "simplify" /\ tlog[2].call = "complicate"
    /\ tlog[3].call = "current" /\ tlog[4].call = "simplify"

\* C12: on an Option value tree, after any calls, a simplify() that returns
\* false leaves current() as it was, and so does a complicate() that
\* returns false; current() does not change the tree: the next call starts
\* from the value it returned, and a second current() returns the same.
FalseReturnChangesNothing ==
    \A i \in 1..Len(tlog) :
        /\ (tlog[i].call \in {"simplify", "complicate"} /\ ~tlog[i].ret) =>
              tlog[i].after = tlog[i].before
        /\ tlog[i].call = "current" =>
              /\ tlog[i].after = tlog[i].before
              /\ i < Len(tlog) => tlog[i + 1].before = tlog[i].after
              /\ (i < Len(tlog) /\ tlog[i + 1].call = "current") =>
                    tlog[i + 1].after = tlog[i].after

FalseReturnStep ==
    (tlog' # tlog /\ ~Last(tlog').ret) => tree' = tree

FalseReturn == []FalseReturnChangesNothing /\ [][FalseReturnStep]_vars

FalseReturnWitness ==
    /\ Len(tlog) = 6
    /\ tlog[1].call = "simplify" /\ tlog[1].ret
    /\ tlog[2].call = "complicate" /\ tlog[2].ret
    /\ tlog[3].call = "simplify" /\ ~tlog[3].ret /\ IsSome(tlog[3].before)
    /\ tlog[4].call = "complicate" /\ ~tlog[4].ret
    /\ tlog[5].call = "current" /\ tlog[6].call = "current"

\* no simplify() has returned true before call i
NoSimplifyYet(i) ==
    \A j \in 1..(i - 1) : ~(tlog[j].call = "simplify" /\ tlog[j].ret)

\* a complicate() before call i returned false and no simplify() came since
ComplicateExhausted(i) ==
    \E j \in 1..(i - 1) :
        /\ tlog[j].call = "complicate" /\ ~tlog[j].ret
        /\ \A k \in (j + 1)..(i - 1) : tlog[k].call # "simplify"

\* C13: on a freshly generated Option tree on which no simplify() has yet
\* returned true, complicate() returns false and leaves current() as it
\* was; and once complicate() has returned false, it keeps returning false
\* until the next simplify().
ComplicateNeedsSimplify ==
    \A i \in 1..Len(tlog) :
        (tlog[i].call = "complicate" /\ (NoSimplifyYet(i) \/ ComplicateExhausted(i))) =>
            (~tlog[i].ret /\ tlog[i].after = tlog[i].before)

ComplicateNeedsWitness ==
    /\ Len(tlog) = 5
    /\ tlog[1].call = "complicate" /\ IsSome(tlog[1].before)
    /\ tlog[2].call = "simplify" /\ tlog[2].ret
    /\ tlog[3].call = "complicate" /\ tlog[3].ret
    /\ tlog[4].call = "complicate" /\ ~tlog[4].ret
    /\ tlog[5].call = "complicate"

DelegateMinimal(d) == IF d.kind = "just" THEN d.value ELSE d.lo

\* None below every Some, Some values as the delegate orders them
OptionLeq(a, b) == a = None \/ (IsSome(b) /\ a[2] <= b[2])

ShrinkDone == driver.pc = "done"

SimplifyOnlyEnd ==
    (ShrinkDone /\ driver.mode = "simplify") =>
        /\ tlog # <<>> /\ ~Last(tlog).ret
        /\ UnionCurrent(tree) \in
              {None, WrapSome(DelegateMinimal(tree.alts[2].strategy.inner))}

SimplifyMonotoneStep ==
    (tlog' # tlog /\ Last(tlog').call = "simplify" /\ Last(tlog').ret) =>
        OptionLeq(UnionCurrent(tree'), UnionCurrent(tree))

\* C11: on every generated Option tree over a delegate with finitely many
\* simplification steps, repeated simplify() comes to return false, with
\* current() then None or Some of the delegate's minimal value; the loop
\* `while simplify() || complicate()` ends, and so does a search that
\* simplifies and complicates as a test decides; and no simplify() that
\* returns true makes current() larger, None being below every Some.
ShrinkTerminates ==
    /\ <>ShrinkDone
    /\ []SimplifyOnlyEnd
    /\ [][SimplifyMonotoneStep]_vars

ShrinkTerminatesWitness ==
    /\ ShrinkDone /\ driver.mode = "loop"
    /\ tree.alts[2].strategy.inner.kind = "range"
    /\ tree.options[2] # NoTree
    /\ tree.options[2].inner.lo > 0
    /\ IsSome(UnionCurrent(tree))

====
